---- MODULE Spec2Model ----
(***************************************************************************)
(* wayvnc: the two frame-capture backends (export-dmabuf and screencopy)   *)
(* and the handling of shared-memory file descriptors in                   *)
(* screencopy_buffer_init and keyboard_init.                               *)
(*                                                                         *)
(* Each backend is a record holding the fields of its C struct, the        *)
(* compositor-side frame objects it talks to and the fds it holds.  Every  *)
(* handler of the source is an operator from record to record, so that a   *)
(* handler calling another one is plain composition; every action applies  *)
(* one whole handler.  The field ev describes what the handler that ran    *)
(* last did (requests issued, on_done invocations, close() calls): it is   *)
(* reset at the start of every handler and is observation only.            *)
(*                                                                         *)
(* File descriptors.  A plane slot of the DMA-BUF backend is described by  *)
(* what its fd field refers to: an open dma-buf fd that an object event of *)
(* some frame object stored there, or nothing the backend owns (the slot   *)
(* was never assigned, or the fd stored there has been closed).  close()   *)
(* on a slot of the second kind is recorded as a bad close; what such a    *)
(* close does to the descriptor that happens to carry the number is not    *)
(* followed.  Storing into a slot that still holds an open fd loses it.    *)
(*                                                                         *)
(* Time.  The code reads gettime_us() and compares it with the stored      *)
(* last_time.  The records keep the difference gettime_us() - last_time    *)
(* (field elapsed), which is all the code ever uses, saturated one tick    *)
(* past the rate-limit period; a timer is kept as the time left until it   *)
(* expires.  A timer's callback runs exactly when it expires: the clock    *)
(* does not advance past an expired timer, while any other event due at    *)
(* the same instant may still be handled first.                            *)
(***************************************************************************)
EXTENDS Integers, Sequences, FiniteSets, TLC

VARIABLES dm, sm, fdm, kb, rd, dones

vars == <<dm, sm, fdm, kb, rd, dones>>

(***************************************************************************)
(* Program constants and model bounds                                      *)
(***************************************************************************)
RATE_LIMIT == 20

(* 1 / RATE_LIMIT, in milliseconds *)
Period == 1000 \div RATE_LIMIT

TickMs == Period \div 2

(* every elapsed time beyond the period is treated alike by the code *)
Late == Period + TickMs

MaxFrames == 2

FrameIds == 1 .. MaxFrames

(* struct dmabuf_frame: plane[4] *)
PlaneSlots == 0 .. 3

(* num_objects of the frame events the compositor sends *)
ObjectCounts == {1, 2}

Min(a, b) == IF a <= b THEN a ELSE b

Max(a, b) == IF a >= b THEN a ELSE b

(***************************************************************************)
(* The compositor's reply to capture_output: a new frame object (the       *)
(* lowest identifier no live object uses) or no object at all.             *)
(***************************************************************************)
FreeFrames(frames) == {f \in FrameIds : frames[f].st = "free"}

CaptureReplies(frames) ==
    {0} \cup (IF FreeFrames(frames) = {} THEN {}
              ELSE {CHOOSE f \in FreeFrames(frames) :
                        \A g \in FreeFrames(frames) : f <= g})

(* The frame objects whose events can still be delivered. *)
Outstanding(frames) == {f \in FrameIds : frames[f].st \in {"await", "objects"}}

NoFrame == [st |-> "free", n |-> 0, k |-> 0]

(***************************************************************************)
(* DMA-BUF backend                                                         *)
(***************************************************************************)
EvNone(op) ==
    [op |-> op, done |-> 0, doneStatus |-> "none", doneWhole |-> TRUE,
     doneGapOk |-> TRUE, badClose |-> FALSE, ret |-> 0, reqs |-> 0,
     armed |-> FALSE, released |-> FALSE, reason |-> "none", due |-> "none",
     lostFd |-> FALSE]

(* plane[i]: the frame object whose object event stored the open fd held   *)
(* in plane[i].fd (0: the slot was never assigned or its fd is closed).    *)
(* sinceDone: time since on_done last saw DONE.                            *)
DmabufInit ==
    [status |-> "STOPPED", zwlr_frame |-> 0, n_planes |-> 0,
     plane |-> [i \in PlaneSlots |-> 0],
     elapsed |-> Late, timer |-> -1,
     frames |-> [f \in FrameIds |-> NoFrame],
     sinceDone |-> Late, ev |-> EvNone("init")]

ClosePlane(m, i) ==
    [m EXCEPT !.plane[i] = 0,
              !.ev.badClose = @ \/ m.plane[i] = 0]

RECURSIVE CloseLoop(_, _)
CloseLoop(m, i) ==
    IF i < m.n_planes THEN CloseLoop(ClosePlane(m, i), i + 1) ELSE m

dmabuf_close_fds(m) == [CloseLoop(m, 0) EXCEPT !.n_planes = 0]

(* aml_stop() returns a negative value when the timer was not started. *)
dmabuf_capture_stop(m) ==
    LET a == IF m.timer >= 0
             THEN dmabuf_close_fds([m EXCEPT !.timer = -1])
             ELSE m
        b == [a EXCEPT !.status = "STOPPED"]
    IN IF b.zwlr_frame # 0
       THEN [b EXCEPT !.frames[b.zwlr_frame] = NoFrame,
                      !.ev.released = @ \/ b.frames[b.zwlr_frame].st = "event",
                      !.zwlr_frame = 0]
       ELSE b

dmabuf_frame_start(m, num_objects) ==
    LET a == dmabuf_close_fds([m EXCEPT !.timer = -1])
    IN [a EXCEPT !.n_planes = num_objects]

dmabuf_frame_object(m, f, plane_index) ==
    [m EXCEPT !.plane[plane_index] = f,
              !.ev.lostFd = m.plane[plane_index] # 0]

dmabuf_capture_start(m, reply) ==
    LET a == [m EXCEPT !.zwlr_frame = reply, !.ev.reqs = @ + 1]
    IN IF reply = 0
       THEN [a EXCEPT !.ev.ret = -1]
       ELSE [a EXCEPT !.frames[reply] = [st |-> "await", n |-> 0, k |-> 0],
                      !.status = "IN_PROGRESS",
                      !.ev.ret = 0]

frame_capture_start(m, reply) == dmabuf_capture_start(m, reply)

(* fc->on_done(fc): the continuation observes the backend.  A capture it   *)
(* starts before returning touches none of the fields the rest of the      *)
(* handler uses, so the caller's next start() is the action DmabufStart.   *)
dmabuf_on_done(m) ==
    LET held == {i \in PlaneSlots : i < m.n_planes}
    IN [m EXCEPT
          !.ev.done = @ + 1,
          !.ev.doneStatus = m.status,
          !.ev.doneWhole =
              /\ m.n_planes >= 1
              /\ \A i \in held : m.plane[i] # 0
              /\ \A i, j \in held : m.plane[i] = m.plane[j],
          !.ev.doneGapOk = (m.status = "DONE") => m.sinceDone >= Period,
          !.sinceDone = IF m.status = "DONE" THEN 0 ELSE @]

(* the timer is one-shot: once its callback runs it is no longer started *)
dmabuf_timer_ready(m) ==
    LET a == [m EXCEPT !.timer = -1]
    IN IF a.status # "IN_PROGRESS"
       THEN a
       ELSE dmabuf_close_fds(
                dmabuf_on_done([a EXCEPT !.elapsed = 0, !.status = "DONE"]))

(* dmabuf_frame_ready with the comparison time_left > 0.0: a variant that  *)
(* C7_Amended tells apart from the code at the deadline itself             *)
dmabuf_frame_ready_strict(m, reply) ==
    LET a == dmabuf_capture_stop(m)
        time_left == Period - a.elapsed
    IN IF time_left > 0
       THEN frame_capture_start([a EXCEPT !.timer = time_left,
                                          !.ev.armed = TRUE], reply)
       ELSE dmabuf_close_fds(dmabuf_on_done([a EXCEPT !.elapsed = 0,
                                                      !.status = "DONE"]))

dmabuf_frame_ready(m, reply) ==
    LET a == dmabuf_capture_stop(m)
        dt == a.elapsed
        time_left == Period - dt
    IN IF time_left >= 0
       THEN frame_capture_start(
                [a EXCEPT !.timer = time_left, !.ev.armed = TRUE], reply)
       ELSE dmabuf_close_fds(
                dmabuf_on_done([a EXCEPT !.elapsed = 0, !.status = "DONE"]))

dmabuf_frame_cancel(m, reason) ==
    LET a == dmabuf_capture_stop(m)
        b == [a EXCEPT !.status = IF reason = "PERMANENT"
                                  THEN "FATAL" ELSE "FAILED"]
    IN dmabuf_close_fds(dmabuf_on_done(b))

(***************************************************************************)
(* SHM (screencopy) backend                                                *)
(***************************************************************************)

(* wl_shm formats and buffer geometries the compositor announces *)
Formats == {0, 1}

Sizes == {[width |-> 1, height |-> 1, stride |-> 4],
          [width |-> 2, height |-> 2, stride |-> 8]}

Tuples == {[format |-> f, width |-> z.width, height |-> z.height,
            stride |-> z.stride] : f \in Formats, z \in Sizes}

(* what shm_alloc_fd, mmap, wl_shm_create_pool and                         *)
(* wl_shm_pool_create_buffer return: mmap returns a mapping or MAP_FAILED  *)
Outcomes ==
    [fd : BOOLEAN, mmap : {"mapped", "MAP_FAILED"}, pool : BOOLEAN,
     buffer : BOOLEAN]

(* self->delay: what smooth() returns for the sample last_time -           *)
(* start_time is left open, any delay on the clock's grid                  *)
Delays == {d \in 0 .. Late : d % TickMs = 0}

(* no wl_buffer (self->buffer is NULL); every announced tuple has a width *)
NoBuffer == [format |-> 0, width |-> 0, height |-> 0, stride |-> 0]

(* the zeroed frame_info of a new backend *)
NoFrameInfo == [fourcc_format |-> 0, width |-> 0, height |-> 0, stride |-> 0]

ShmEvNone(op) ==
    [op |-> op, done |-> 0, doneStatus |-> "none", ret |-> 0, reqs |-> 0,
     slack |-> 0, armed |-> FALSE, copies |-> 0, fd |-> "none",
     made |-> FALSE, plan |-> "none", tuple |-> NoBuffer,
     doneTimerOff |-> TRUE, doneFresh |-> TRUE, doneDelay |-> 0, smoothed |-> 0]

(* buffer: the tuple the cached wl_buffer was created with.                *)
(* elapsed: gettime_us() - last_time, saturated at Late.  start_time is    *)
(* read only to form the smoother's sample and is not kept.                *)
ScreencopyInit ==
    [status |-> "STOPPED", frame |-> 0, buffer |-> NoBuffer, pixels |-> "NULL",
     bufsize |-> 0, frame_info |-> NoFrameInfo, elapsed |-> Late,
     delay |-> 0, timer |-> -1,
     frames |-> [f \in FrameIds |-> "free"],
     crashed |-> FALSE, ev |-> ShmEvNone("init")]

fourcc_from_wl_shm(in) ==
    CASE in = 0 -> 875713089
      [] in = 1 -> 875713112
      [] OTHER -> in

(* close(fd) on the descriptor shm_alloc_fd returned to this call *)
CloseShmFd(m) ==
    [m EXCEPT !.ev.fd = CASE @ = "open" -> "closed"
                          [] @ = "closed" -> "closed_twice"
                          [] OTHER -> "closed_unowned"]

(* screencopy_buffer_init without the close(fd) of its failure labels: a   *)
(* variant that C10_ShmFdClosedOnce tells apart from the code              *)
screencopy_buffer_init_leaky(m, format, width, height, stride, oc) ==
    IF m.buffer # NoBuffer
    THEN [m EXCEPT !.ev.ret = 0]
    ELSE IF ~oc.fd
    THEN [m EXCEPT !.ev.ret = -1]
    ELSE LET a == [m EXCEPT !.ev.fd = "open"]
         IN IF ~oc.pool \/ ~oc.buffer
            THEN [a EXCEPT !.ev.ret = -1]
            ELSE CloseShmFd(
                     [a EXCEPT !.buffer = [format |-> format, width |-> width,
                                           height |-> height, stride |-> stride],
                               !.pixels = oc.mmap,
                               !.bufsize = stride * height,
                               !.ev.made = TRUE,
                               !.ev.ret = 0])

screencopy_buffer_init(m, format, width, height, stride, oc) ==
    IF m.buffer # NoBuffer
    THEN [m EXCEPT !.ev.ret = 0]
    ELSE LET size == stride * height
         IN IF ~oc.fd
            THEN [m EXCEPT !.ev.ret = -1]
            ELSE LET a == [m EXCEPT !.ev.fd = "open"]
                     addr == oc.mmap
                     mmap_failure == [CloseShmFd(a) EXCEPT !.ev.ret = -1]
                     shm_failure == mmap_failure
                 IN IF addr = "NULL" THEN mmap_failure
                    ELSE IF ~oc.pool THEN shm_failure
                    ELSE IF ~oc.buffer THEN shm_failure
                    ELSE CloseShmFd(
                             [a EXCEPT !.buffer = [format |-> format,
                                                   width |-> width,
                                                   height |-> height,
                                                   stride |-> stride],
                                       !.pixels = addr,
                                       !.bufsize = size,
                                       !.ev.made = TRUE,
                                       !.ev.ret = 0])

screencopy_stop(m) ==
    LET a == [m EXCEPT !.timer = -1]
    IN IF a.frame # 0
       THEN [a EXCEPT !.frames[a.frame] = "free", !.frame = 0]
       ELSE a

screencopy__start_capture(m, reply) ==
    LET a == [m EXCEPT !.frame = reply,
                       !.ev.reqs = @ + 1,
                       !.ev.slack = m.elapsed + m.delay - Period]
    IN IF reply = 0
       THEN [a EXCEPT !.ev.ret = -1]
       ELSE [a EXCEPT !.frames[reply] = "buffer", !.ev.ret = 0]

(* the timer is one-shot: once its callback runs it is no longer started *)
screencopy__poll(m, reply) ==
    screencopy__start_capture([m EXCEPT !.timer = -1], reply)

(* screencopy_start with the comparison time_left >= 0: a variant that     *)
(* C8_StartRateLimit tells apart from the code when time_left is 0         *)
screencopy_start_nonneg(m, reply) ==
    IF m.status = "IN_PROGRESS"
    THEN [m EXCEPT !.ev.ret = -1]
    ELSE LET time_left == Period - m.elapsed - m.delay
             a == [m EXCEPT !.status = "IN_PROGRESS"]
         IN IF time_left >= 0
            THEN [a EXCEPT !.timer = time_left, !.ev.armed = TRUE, !.ev.ret = 0]
            ELSE screencopy__start_capture(a, reply)

screencopy_start(m, reply) ==
    IF m.status = "IN_PROGRESS"
    THEN [m EXCEPT !.ev.ret = -1]
    ELSE LET dt == m.elapsed
             time_left == Period - dt - m.delay
             a == [m EXCEPT !.status = "IN_PROGRESS"]
         IN IF time_left > 0
            THEN [a EXCEPT !.timer = time_left, !.ev.armed = TRUE, !.ev.ret = 0]
            ELSE screencopy__start_capture(a, reply)

(* on_done observes the backend and may start the next capture before it   *)
(* returns.                                                                *)
screencopy_on_done(m, restart, reply) ==
    LET a == [m EXCEPT !.ev.done = @ + 1,
                       !.ev.doneStatus = m.status,
                       !.ev.doneTimerOff = m.timer = -1,
                       !.ev.doneFresh = m.elapsed = 0,
                       !.ev.doneDelay = m.delay]
    IN IF restart THEN screencopy_start(a, reply) ELSE a

(* zwlr_screencopy_frame_v1_copy_with_damage(self->frame, self->buffer):   *)
(* with no frame object or no buffer the request cannot be marshalled and  *)
(* the process or its compositor connection ends.                          *)
copy_with_damage(m) ==
    IF m.frame = 0 \/ m.buffer = NoBuffer
    THEN [m EXCEPT !.crashed = TRUE, !.ev.copies = @ + 1]
    ELSE [m EXCEPT !.frames[m.frame] = "copy", !.ev.copies = @ + 1]

screencopy_buffer(m, format, width, height, stride, oc, restart, reply) ==
    LET a == screencopy_buffer_init(m, format, width, height, stride, oc)
        b == IF a.ev.ret < 0
             THEN screencopy_on_done(
                      screencopy_stop([a EXCEPT !.status = "FATAL"]),
                      restart, reply)
             ELSE a
        c == [b EXCEPT !.frame_info = [fourcc_format |-> fourcc_from_wl_shm(format),
                                       width |-> width, height |-> height,
                                       stride |-> stride]]
    IN copy_with_damage(c)

(* screencopy_ready with on_done invoked before the state is written: a   *)
(* variant that C14_StatusFinalAtOnDone tells apart from the code          *)
screencopy_ready_late(m, smoothed, restart, reply) ==
    LET a == screencopy_on_done(screencopy_stop(m), restart, reply)
    IN [a EXCEPT !.elapsed = 0, !.delay = smoothed, !.status = "DONE"]

screencopy_ready(m, smoothed, restart, reply) ==
    LET a == screencopy_stop(m)
        b == [a EXCEPT !.elapsed = 0, !.delay = smoothed, !.status = "DONE"]
    IN screencopy_on_done(b, restart, reply)

screencopy_failed(m, restart, reply) ==
    screencopy_on_done([screencopy_stop(m) EXCEPT !.status = "FAILED"],
                       restart, reply)

(***************************************************************************)
(* DMA-BUF backend: operations of the caller, events of the compositor and *)
(* the expiry of the backend's timer.                                      *)
(***************************************************************************)
DmabufBegin(op) == [dm EXCEPT !.ev = EvNone(op)]

(* A frame object that has sent its last event (ready or cancel) and was   *)
(* not destroyed by the handler stays allocated, unreferenced and silent.  *)
Settle(m) ==
    [m EXCEPT !.frames = [f \in FrameIds |->
                            IF m.frames[f].st = "event" THEN NoFrame
                            ELSE m.frames[f]]]

Due(dt) ==
    IF dt < Period THEN "early" ELSE IF dt = Period THEN "exact" ELSE "late"

(* backend.start by a caller that respects the single-flight rule *)
DmabufStart ==
    /\ dm.status # "IN_PROGRESS"
    /\ \E reply \in CaptureReplies(dm.frames) :
           dm' = dmabuf_capture_start(DmabufBegin("start"), reply)
    /\ UNCHANGED <<sm, fdm, kb, rd>>

(* backend.start while a capture is in progress *)
DmabufStartBusy ==
    /\ dm.status = "IN_PROGRESS"
    /\ \E reply \in CaptureReplies(dm.frames) :
           dm' = dmabuf_capture_start(DmabufBegin("start_busy"), reply)
    /\ UNCHANGED <<sm, fdm, kb, rd>>

DmabufStop ==
    /\ dm' = dmabuf_capture_stop(DmabufBegin("stop"))
    /\ UNCHANGED <<sm, fdm, kb, rd>>

DmabufFrameEvent ==
    /\ \E f \in FrameIds, num_objects \in ObjectCounts :
           /\ dm.frames[f].st = "await"
           /\ dm' = dmabuf_frame_start(
                        [DmabufBegin("frame") EXCEPT
                            !.frames[f] = [st |-> "objects", n |-> num_objects,
                                           k |-> 0]],
                        num_objects)
    /\ UNCHANGED <<sm, fdm, kb, rd>>

(* the objects of a frame arrive in the order of their plane index *)
DmabufObjectEvent ==
    /\ \E f \in FrameIds :
           /\ dm.frames[f].st = "objects"
           /\ dm.frames[f].k < dm.frames[f].n
           /\ dm' = dmabuf_frame_object(
                        [DmabufBegin("object") EXCEPT !.frames[f].k = @ + 1],
                        f, dm.frames[f].k)
    /\ UNCHANGED <<sm, fdm, kb, rd>>

(* ready follows the last object of the frame *)
DmabufReadyEvent ==
    /\ \E f \in FrameIds :
           /\ dm.frames[f].st = "objects"
           /\ dm.frames[f].k = dm.frames[f].n
           /\ LET m == [DmabufBegin("ready") EXCEPT
                            !.frames[f].st = "event",
                            !.ev.due = Due(dm.elapsed)]
              IN \E reply \in CaptureReplies(Settle(dmabuf_capture_stop(m)).frames) :
                     dm' = Settle(dmabuf_frame_ready(m, reply))
    /\ UNCHANGED <<sm, fdm, kb, rd>>

(* cancel may come at any point of a capture *)
DmabufCancelEvent ==
    /\ \E f \in FrameIds, reason \in {"TEMPORARY", "PERMANENT", "RESIZING"} :
           /\ dm.frames[f].st \in {"await", "objects"}
           /\ dm' = Settle(dmabuf_frame_cancel(
                               [DmabufBegin("cancel") EXCEPT
                                   !.frames[f].st = "event",
                                   !.ev.reason = reason],
                               reason))
    /\ UNCHANGED <<sm, fdm, kb, rd>>

DmabufTimerExpiry ==
    /\ dm.timer = 0
    /\ dm' = dmabuf_timer_ready(DmabufBegin("timer"))
    /\ UNCHANGED <<sm, fdm, kb, rd>>

DmabufTick ==
    /\ dm.timer # 0
    /\ dm' = [dm EXCEPT !.elapsed = Min(@ + TickMs, Late),
                        !.sinceDone = Min(@ + TickMs, Late),
                        !.timer = IF @ > 0 THEN Max(@ - TickMs, 0) ELSE @,
                        !.ev = EvNone("tick")]
    /\ UNCHANGED <<sm, fdm, kb, rd>>

(***************************************************************************)
(* keyboard_init: the resources it acquires and the keymap fd              *)
(***************************************************************************)
MaxKeymap == 3
MaxWrites == 2

KeymapSizes == 1 .. MaxKeymap

(* what write(2) returns: an error with errno, or a count of bytes *)
WriteRets ==
    {[ret |-> -1, errno |-> "EINTR"], [ret |-> -1, errno |-> "EIO"]}
        \cup {[ret |-> n, errno |-> "none"] : n \in 1 .. 2}

WriteSeqs == UNION {[1 .. n -> WriteRets] : n \in 0 .. MaxWrites}

KeyboardOutcomes ==
    [context : BOOLEAN, intset : BOOLEAN, keymap : BOOLEAN, table : BOOLEAN,
     string : BOOLEAN, fd : BOOLEAN]

KbEvNone(op) == [op |-> op, ret |-> 0, fd |-> "none", sent |-> 0, at |-> "none"]

KeyboardNew ==
    [context |-> "NULL", key_state |-> "NULL", keymap |-> "NULL",
     lookup_table |-> "NULL", keymap_string |-> "NULL",
     ev |-> KbEvNone("new")]

(* the write loop of keyboard_init; write() returns at most the count it   *)
(* was asked for, and once rets is used up it writes all that remains      *)
RECURSIVE keymap_write_loop(_, _, _)
keymap_write_loop(written, keymap_size, rets) ==
    IF ~(written < keymap_size)
    THEN TRUE
    ELSE LET r == IF rets = <<>>
                  THEN [ret |-> keymap_size - written, errno |-> "none"]
                  ELSE Head(rets)
             rest == IF rets = <<>> THEN rets ELSE Tail(rets)
         IN IF r.ret = -1 /\ r.errno = "EINTR"
            THEN keymap_write_loop(written, keymap_size, rest)
            ELSE IF r.ret = -1
            THEN FALSE
            ELSE keymap_write_loop(written + Min(r.ret, keymap_size - written),
                                   keymap_size, rest)

keyboard_init(k, oc, keymap_size, rets) ==
    LET key_state_failure(x) ==
            [x EXCEPT !.context = "released", !.ev.ret = -1]
        keymap_failure(x) ==
            key_state_failure([x EXCEPT !.key_state = "released"])
        table_failure(x) ==
            keymap_failure([x EXCEPT !.keymap = "released"])
        keymap_string_failure(x) ==
            table_failure([x EXCEPT !.lookup_table = "released"])
        fd_failure(x) ==
            keymap_string_failure([x EXCEPT !.keymap_string = "released"])
        write_failure(x) == fd_failure(CloseShmFd(x))
        a == [k EXCEPT !.context = "held"]
        b == [a EXCEPT !.key_state = "held"]
        c == [b EXCEPT !.keymap = "held"]
        d == [c EXCEPT !.lookup_table = "held"]
        e == [d EXCEPT !.keymap_string = "held"]
        f == [e EXCEPT !.ev.fd = "open"]
    IN IF ~oc.context THEN [k EXCEPT !.ev.ret = -1, !.ev.at = "context"]
       ELSE IF ~oc.intset THEN key_state_failure([a EXCEPT !.ev.at = "key_state"])
       ELSE IF ~oc.keymap THEN keymap_failure([b EXCEPT !.ev.at = "keymap"])
       ELSE IF ~oc.table THEN table_failure([c EXCEPT !.ev.at = "table"])
       ELSE IF ~oc.string THEN keymap_string_failure([d EXCEPT !.ev.at = "string"])
       ELSE IF ~oc.fd THEN fd_failure([e EXCEPT !.ev.at = "fd"])
       ELSE IF ~keymap_write_loop(0, keymap_size, rets)
       THEN write_failure([f EXCEPT !.ev.at = "write"])
       ELSE CloseShmFd([f EXCEPT !.keymap_string = "released",
                                 !.ev.sent = @ + 1,
                                 !.ev.at = "success",
                                 !.ev.ret = 0])

keyboard_destroy(k) ==
    [k EXCEPT !.lookup_table = "released", !.keymap = "released",
              !.key_state = "released", !.context = "released"]

(***************************************************************************)
(* Keyboard: the lookup table, keyboard_find_symbol and keyboard_feed      *)
(***************************************************************************)

(* lookup_table_size set by create_lookup_table *)
INITIAL_TABLE_SIZE == 128

(* the number of keys of the keymap that fills the table beyond its        *)
(* initial size                                                            *)
BigKeys == INITIAL_TABLE_SIZE + 1

(* Keymaps, at layout index 0.  Key codes start at 8; a symbol is a        *)
(* number.  basic: two keys with two levels.  shared: a symbol on two keys *)
(* at different levels.  tied: a symbol on two keys at the same level, and *)
(* a key without levels.  multi: two symbols at one level, an empty level. *)
(* big: BigKeys keys of one symbol each.                                   *)
Keymaps == {"basic", "shared", "tied", "multi", "big"}

(* xkb_keymap_key_for_each visits the key codes in ascending order *)
KeymapMinCode == 8

KeymapMaxCode(km) ==
    CASE km = "big" -> KeymapMinCode + BigKeys - 1
      [] km = "tied" -> 10
      [] OTHER -> 9

(* the symbols of every level of a key *)
KeymapLevels(km, code) ==
    CASE km = "basic" /\ code = 8 -> << <<1>>, <<2>> >>
      [] km = "basic" /\ code = 9 -> << <<3>>, <<4>> >>
      [] km = "shared" /\ code = 8 -> << <<1>>, <<2>> >>
      [] km = "shared" /\ code = 9 -> << <<2>>, <<1>> >>
      [] km = "tied" /\ code \in {8, 9} -> << <<1>> >>
      [] km = "tied" /\ code = 10 -> << >>
      [] km = "multi" /\ code = 8 -> << <<1, 3>>, << >> >>
      [] km = "multi" /\ code = 9 -> << <<3>>, <<1>> >>
      [] km = "big" -> << <<code - KeymapMinCode + 1>> >>

xkb_keymap_num_levels_for_key(km, code) == Len(KeymapLevels(km, code))

xkb_keymap_key_get_syms_by_level(km, code, level) ==
    KeymapLevels(km, code)[level + 1]

(* the modifier masks that select a level of a key: none is needed for     *)
(* level 0, Shift (1) or Lock (2) for level 1; multi reports no mask       *)
KeymapMods(km, code, level) ==
    IF level = 0 THEN <<0>>
    ELSE IF km = "multi" THEN << >>
    ELSE <<1, 2>>

(* xkb_keymap_key_get_mods_for_level(..., &mods, 1): mods, which was 0, is *)
(* set to the first mask if there is one                                   *)
xkb_keymap_key_get_mods_for_level(km, code, level) ==
    IF KeymapMods(km, code, level) = << >> THEN 0
    ELSE Head(KeymapMods(km, code, level))

(* the (symbol, code, level) triples of a keymap *)
KeymapTriples(km) ==
    {[symbol |-> KeymapLevels(km, c)[l + 1][i], code |-> c, level |-> l] :
        <<c, l, i>> \in
            {x \in (KeymapMinCode .. KeymapMaxCode(km)) \X (0 .. 1) \X (1 .. 2) :
                /\ x[2] < Len(KeymapLevels(km, x[1]))
                /\ x[3] <= Len(KeymapLevels(km, x[1])[x[2] + 1])}}

(* what one call did: its result, the entries append_entry dropped, the    *)
(* arguments of feed and the requests it sent to the virtual keyboard      *)
FeedEvNone(op) ==
    [op |-> op, ret |-> 0, dropped |-> 0, symbol |-> 0, is_pressed |-> FALSE,
     events |-> << >>]

(* struct keyboard before keyboard_init; sink is the set of wire key codes *)
(* whose last key request was a press, and by tells for each of them the   *)
(* symbol that was fed for that press                                      *)
InjectorNew ==
    [state |-> "new", keymap |-> "none", lookup_table |-> << >>,
     lookup_table_length |-> 0, lookup_table_size |-> 0, key_state |-> {},
     sink |-> {}, by |-> {}, ev |-> FeedEvNone("new")]

(* append_entry: realloc_ok tells whether a realloc that is needed works;  *)
(* when it fails the entry is dropped                                      *)
append_entry(k, symbol, code, level, realloc_ok) ==
    LET grow == k.lookup_table_size <= k.lookup_table_length
        a == IF grow /\ realloc_ok
             THEN [k EXCEPT !.lookup_table_size = k.lookup_table_size * 2]
             ELSE k
    IN IF grow /\ ~realloc_ok
       THEN [k EXCEPT !.ev.dropped = @ + 1]
       ELSE [a EXCEPT !.lookup_table =
                          Append(@, [symbol |-> symbol, code |-> code,
                                     level |-> level]),
                      !.lookup_table_length = @ + 1]

RECURSIVE SymsLoop(_, _, _, _, _)
SymsLoop(k, code, level, sym_idx, realloc_ok) ==
    LET symbols == xkb_keymap_key_get_syms_by_level(k.keymap, code, level)
    IN IF sym_idx < Len(symbols)
       THEN SymsLoop(append_entry(k, symbols[sym_idx + 1], code, level, realloc_ok),
                     code, level, sym_idx + 1, realloc_ok)
       ELSE k

RECURSIVE LevelsLoop(_, _, _, _)
LevelsLoop(k, code, level, realloc_ok) ==
    IF level < xkb_keymap_num_levels_for_key(k.keymap, code)
    THEN LevelsLoop(SymsLoop(k, code, level, 0, realloc_ok), code, level + 1,
                    realloc_ok)
    ELSE k

key_iter(k, code, realloc_ok) == LevelsLoop(k, code, 0, realloc_ok)

(* key_iter on the key codes first .. last in ascending order, written as  *)
(* the first half of the range followed by the second; the table of the    *)
(* first half is complete before the second half starts                    *)
RECURSIVE xkb_keymap_key_for_each(_, _, _, _)
xkb_keymap_key_for_each(k, first, last, realloc_ok) ==
    IF first > last THEN k
    ELSE IF first = last THEN key_iter(k, first, realloc_ok)
    ELSE LET mid == (first + last) \div 2
             half == xkb_keymap_key_for_each(k, first, mid, realloc_ok)
         IN IF half.lookup_table_length >= 0
            THEN xkb_keymap_key_for_each(half, mid + 1, last, realloc_ok)
            ELSE half

compare_symbols(x, y) ==
    IF x.symbol = y.symbol
    THEN (IF x.level < y.level THEN -1 ELSE IF x.level > y.level THEN 1 ELSE 0)
    ELSE (IF x.symbol < y.symbol THEN -1 ELSE IF x.symbol > y.symbol THEN 1 ELSE 0)

compare_symbols2(x, y) ==
    IF x.symbol < y.symbol THEN -1 ELSE IF x.symbol > y.symbol THEN 1 ELSE 0

(* qsort with compare_symbols: the elements come out in an order in which *)
(* no element compares greater than a later one; elements that compare     *)
(* equal may come out in either order, and ties tells which                *)
QsortBefore(s, i, j, ties) ==
    \/ compare_symbols(s[i], s[j]) < 0
    \/ /\ compare_symbols(s[i], s[j]) = 0
       /\ \/ (IF ties = "up" THEN s[i].code < s[j].code
                ELSE s[i].code > s[j].code)
          \/ s[i].code = s[j].code /\ i < j

qsort(s, n, ties) ==
    LET place == {<<1 + Cardinality({i \in 1 .. n : QsortBefore(s, i, j, ties)}), j>> :
                     j \in 1 .. n}
    IN [p \in 1 .. n |-> s[(CHOOSE x \in place : x[1] = p)[2]]]

create_lookup_table(k, malloc_ok, realloc_ok, ties) ==
    LET a == [k EXCEPT !.lookup_table_length = 0,
                       !.lookup_table_size = INITIAL_TABLE_SIZE,
                       !.lookup_table = << >>]
        b == xkb_keymap_key_for_each(a, KeymapMinCode, KeymapMaxCode(k.keymap),
                                     realloc_ok)
    IN IF ~malloc_ok
       THEN [a EXCEPT !.ev.ret = -1]
       ELSE [b EXCEPT !.lookup_table = qsort(@, b.lookup_table_length, ties),
                      !.state = "ready",
                      !.ev.ret = 0]

(* bsearch with compare_symbols2 returns some element that compares equal  *)
(* to the key, or NULL (0)                                                 *)
bsearch(k, symbol) ==
    LET hits == {i \in 1 .. k.lookup_table_length :
                    compare_symbols2([symbol |-> symbol], k.lookup_table[i]) = 0}
    IN IF hits = {} THEN {0} ELSE hits

RECURSIVE FindWalk(_, _, _)
FindWalk(k, entry, symbol) ==
    IF entry # 1 /\ k.lookup_table[entry - 1].symbol = symbol
    THEN FindWalk(k, entry - 1, symbol)
    ELSE entry

(* keyboard_find_symbol without the walk to the first entry of the run *)
keyboard_find_symbol_nowalk(k, symbol, hit) == hit

(* the index of the entry returned, 0 for NULL *)
keyboard_find_symbol(k, symbol, hit) ==
    IF hit = 0 THEN 0 ELSE FindWalk(k, hit, symbol)

(* intset_is_set, intset_set, intset_clear on key_state *)
intset_is_set(k, code) == code \in k.key_state

intset_set(k, code) == [k EXCEPT !.key_state = @ \cup {code}]

intset_clear(k, code) == [k EXCEPT !.key_state = @ \ {code}]

(* the requests record the key_state they were sent under *)
zwp_virtual_keyboard_v1_modifiers(k, depressed, latched, locked, group) ==
    [k EXCEPT !.ev.events =
                  Append(@, [request |-> "modifiers", depressed |-> depressed,
                             latched |-> latched, locked |-> locked,
                             group |-> group, key_state |-> k.key_state])]

zwp_virtual_keyboard_v1_key(k, time, key, pressed) ==
    [k EXCEPT !.ev.events =
                  Append(@, [request |-> "key", time |-> time, key |-> key,
                             pressed |-> pressed, key_state |-> k.key_state,
                             held_by |-> {p[2] : p \in {q \in k.by : q[1] = key}}]),
              !.sink = IF pressed THEN @ \cup {key} ELSE @ \ {key},
              !.by = IF pressed THEN @ \cup {<<key, k.ev.symbol>>}
                     ELSE {q \in @ : q[1] # key}]

(* keyboard_feed that leaves key_state alone *)
keyboard_feed_nostate(k, symbol, is_pressed, hit) ==
    LET found == keyboard_find_symbol(k, symbol, hit)
        entry == k.lookup_table[found]
        mods == xkb_keymap_key_get_mods_for_level(k.keymap, entry.code,
                                                  entry.level)
        was_pressed == intset_is_set(k, entry.code)
        b == zwp_virtual_keyboard_v1_modifiers(k, 0, mods, 0, 0)
    IN IF found = 0 THEN k
       ELSE IF was_pressed = is_pressed THEN k
       ELSE zwp_virtual_keyboard_v1_key(b, 0, entry.code - 8, is_pressed)

(* keyboard_feed without the comparison of was_pressed and is_pressed *)
keyboard_feed_repeat(k, symbol, is_pressed, hit) ==
    LET found == keyboard_find_symbol(k, symbol, hit)
        entry == k.lookup_table[found]
        mods == xkb_keymap_key_get_mods_for_level(k.keymap, entry.code,
                                                  entry.level)
        a == IF is_pressed THEN intset_set(k, entry.code)
             ELSE intset_clear(k, entry.code)
        b == zwp_virtual_keyboard_v1_modifiers(a, 0, mods, 0, 0)
    IN IF found = 0 THEN k
       ELSE zwp_virtual_keyboard_v1_key(b, 0, entry.code - 8, is_pressed)

(* keyboard_feed that sends the key request before the modifiers request *)
keyboard_feed_keyfirst(k, symbol, is_pressed, hit) ==
    LET found == keyboard_find_symbol(k, symbol, hit)
        entry == k.lookup_table[found]
        mods == xkb_keymap_key_get_mods_for_level(k.keymap, entry.code,
                                                  entry.level)
        was_pressed == intset_is_set(k, entry.code)
        a == IF is_pressed THEN intset_set(k, entry.code)
             ELSE intset_clear(k, entry.code)
        b == zwp_virtual_keyboard_v1_key(a, 0, entry.code - 8, is_pressed)
    IN IF found = 0 THEN k
       ELSE IF was_pressed = is_pressed THEN k
       ELSE zwp_virtual_keyboard_v1_modifiers(b, 0, mods, 0, 0)

(* keyboard_feed that tracks the pressed state per symbol *)
keyboard_feed_persymbol(k, symbol, is_pressed, hit) ==
    LET found == keyboard_find_symbol(k, symbol, hit)
        entry == k.lookup_table[found]
        mods == xkb_keymap_key_get_mods_for_level(k.keymap, entry.code,
                                                  entry.level)
        was_pressed == intset_is_set(k, symbol)
        a == IF is_pressed THEN intset_set(k, symbol)
             ELSE intset_clear(k, symbol)
        b == zwp_virtual_keyboard_v1_modifiers(a, 0, mods, 0, 0)
    IN IF found = 0 THEN k
       ELSE IF was_pressed = is_pressed THEN k
       ELSE zwp_virtual_keyboard_v1_key(b, 0, entry.code - 8, is_pressed)

keyboard_feed(k, symbol, is_pressed, hit) ==
    LET found == keyboard_find_symbol(k, symbol, hit)
        entry == k.lookup_table[found]
        mods == xkb_keymap_key_get_mods_for_level(k.keymap, entry.code,
                                                  entry.level)
        was_pressed == intset_is_set(k, entry.code)
        a == IF is_pressed THEN intset_set(k, entry.code)
             ELSE intset_clear(k, entry.code)
        b == zwp_virtual_keyboard_v1_modifiers(a, 0, mods, 0, 0)
    IN IF found = 0 THEN k
       ELSE IF was_pressed = is_pressed THEN k
       ELSE zwp_virtual_keyboard_v1_key(b, 0, entry.code - 8, is_pressed)

(* symbols the client sends; the last one is in no small keymap *)
FeedSymbols == 1 .. 5

(* keyboard_init as far as the injector goes: key_state starts empty, the  *)
(* table is built, and rest_ok tells whether every other step succeeds     *)
KbInit ==
    /\ kb.state = "new"
    /\ \E km \in Keymaps, malloc_ok \in BOOLEAN, realloc_ok \in BOOLEAN,
          ties \in {"up", "down"}, rest_ok \in BOOLEAN :
           LET a == create_lookup_table(
                        [kb EXCEPT !.keymap = km, !.ev = FeedEvNone("init")],
                        malloc_ok, realloc_ok, ties)
           IN kb' = IF a.ev.ret = 0 /\ ~rest_ok
                    THEN [a EXCEPT !.state = "failed", !.lookup_table = << >>,
                                   !.ev.ret = -1]
                    ELSE a
    /\ UNCHANGED <<dm, sm, fdm, rd>>

KbFeed ==
    /\ kb.state = "ready"
    /\ \E symbol \in FeedSymbols, is_pressed \in BOOLEAN :
           \E hit \in bsearch(kb, symbol) :
               kb' = keyboard_feed(
                         [kb EXCEPT !.ev = [FeedEvNone("feed") EXCEPT
                                               !.symbol = symbol,
                                               !.is_pressed = is_pressed]],
                         symbol, is_pressed, hit)
    /\ UNCHANGED <<dm, sm, fdm, rd>>

(***************************************************************************)
(* SHM backend: operations of the caller, events of the compositor and the *)
(* expiry of the backend's timer.  Nothing runs after the process ended.   *)
(***************************************************************************)
ShmBegin(op) == [sm EXCEPT !.ev = ShmEvNone(op)]

ShmFree(frames) == {f \in FrameIds : frames[f] = "free"}

(* capture_output returns a new frame object, or NULL *)
ShmReplies(frames) ==
    {0} \cup (IF ShmFree(frames) = {} THEN {}
              ELSE {CHOOSE f \in ShmFree(frames) : \A g \in ShmFree(frames) : f <= g})

ShmOutstanding(frames) == {f \in FrameIds : frames[f] \in {"buffer", "copy"}}

ShmSettle(m) ==
    [m EXCEPT !.frames = [f \in FrameIds |->
                            IF m.frames[f] = "event" THEN "free" ELSE m.frames[f]]]

Plan(m) == IF Period - m.elapsed - m.delay > 0 THEN "wait" ELSE "go"

ShmStart ==
    /\ ~sm.crashed
    /\ sm.status # "IN_PROGRESS"
    /\ \E reply \in ShmReplies(sm.frames) :
           sm' = screencopy_start([ShmBegin("start") EXCEPT !.ev.plan = Plan(sm)],
                                  reply)
    /\ UNCHANGED <<dm, fdm, kb, rd>>

ShmStartBusy ==
    /\ ~sm.crashed
    /\ sm.status = "IN_PROGRESS"
    /\ \E reply \in ShmReplies(sm.frames) :
           sm' = screencopy_start(ShmBegin("start_busy"), reply)
    /\ UNCHANGED <<dm, fdm, kb, rd>>

ShmStop ==
    /\ ~sm.crashed
    /\ sm' = screencopy_stop(ShmBegin("stop"))
    /\ UNCHANGED <<dm, fdm, kb, rd>>

ShmBufferEvent ==
    /\ ~sm.crashed
    /\ \E f \in FrameIds, t \in Tuples, oc \in Outcomes, restart \in BOOLEAN :
           /\ sm.frames[f] = "buffer"
           /\ \E reply \in ShmReplies(sm.frames) :
                  sm' = screencopy_buffer(
                            [ShmBegin("buffer") EXCEPT !.ev.tuple = t],
                            t.format, t.width, t.height, t.stride, oc, restart,
                            reply)
    /\ UNCHANGED <<dm, fdm, kb, rd>>

ShmReadyEvent ==
    /\ ~sm.crashed
    /\ \E f \in FrameIds, restart \in BOOLEAN :
           /\ sm.frames[f] = "copy"
           /\ LET m == [ShmBegin("ready") EXCEPT !.frames[f] = "event"]
                  r(smoothed) == [m EXCEPT !.ev.smoothed = smoothed]
              IN \E smoothed \in Delays,
                    reply \in ShmReplies(ShmSettle(screencopy_stop(m)).frames) :
                     sm' = ShmSettle(screencopy_ready(r(smoothed), smoothed,
                                                      restart, reply))
    /\ UNCHANGED <<dm, fdm, kb, rd>>

ShmFailedEvent ==
    /\ ~sm.crashed
    /\ \E f \in FrameIds, restart \in BOOLEAN :
           /\ sm.frames[f] \in {"buffer", "copy"}
           /\ LET m == [ShmBegin("failed") EXCEPT !.frames[f] = "event"]
              IN \E reply \in ShmReplies(ShmSettle(screencopy_stop(m)).frames) :
                     sm' = ShmSettle(screencopy_failed(m, restart, reply))
    /\ UNCHANGED <<dm, fdm, kb, rd>>

ShmTimerExpiry ==
    /\ ~sm.crashed
    /\ sm.timer = 0
    /\ \E reply \in ShmReplies(sm.frames) :
           sm' = screencopy__poll(ShmBegin("poll"), reply)
    /\ UNCHANGED <<dm, fdm, kb, rd>>

ShmTick ==
    /\ ~sm.crashed
    /\ sm.timer # 0
    /\ sm' = [sm EXCEPT !.elapsed = Min(@ + TickMs, Late),
                        !.timer = IF @ > 0 THEN Max(@ - TickMs, 0) ELSE @,
                        !.ev = ShmEvNone("tick")]
    /\ UNCHANGED <<dm, fdm, kb, rd>>

(***************************************************************************)
(* The two functions that take a descriptor from shm_alloc_fd, applied to  *)
(* every outcome of the calls they make.                                   *)
(***************************************************************************)
FdInit == [sc |-> ScreencopyInit, kb |-> KeyboardNew]

FdBufferInit ==
    /\ \E t \in Tuples, oc \in Outcomes :
           fdm' = [fdm EXCEPT !.sc = screencopy_buffer_init(
                                         [fdm.sc EXCEPT !.ev = ShmEvNone("buffer_init")],
                                         t.format, t.width, t.height, t.stride, oc)]
    /\ UNCHANGED <<dm, sm, kb, rd>>

(* screencopy_destroy, then screencopy_init on a new struct screencopy *)
FdScreencopyRenew ==
    /\ fdm.sc.buffer # NoBuffer
    /\ fdm' = [fdm EXCEPT !.sc = ScreencopyInit]
    /\ UNCHANGED <<dm, sm, kb, rd>>

FdKeyboardInit ==
    /\ fdm.kb.context # "held"
    /\ \E oc \in KeyboardOutcomes, keymap_size \in KeymapSizes, rets \in WriteSeqs :
           fdm' = [fdm EXCEPT !.kb = keyboard_init(
                                         [KeyboardNew EXCEPT !.ev = KbEvNone("init")],
                                         oc, keymap_size, rets)]
    /\ UNCHANGED <<dm, sm, kb, rd>>

FdKeyboardDestroy ==
    /\ fdm.kb.context = "held"
    /\ fdm' = [fdm EXCEPT !.kb = [keyboard_destroy(fdm.kb) EXCEPT
                                     !.ev = KbEvNone("destroy")]]
    /\ UNCHANGED <<dm, sm, kb, rd>>

(***************************************************************************)
(* Renderer: uploads and the damage estimator.  An image is the set of its *)
(* lit blocks of CellPx x CellPx pixels, every other block being zero; a   *)
(* texture is an image together with the target it was created for.        *)
(***************************************************************************)

(* side of a tile of the damage estimator, in pixels *)
TilePx == 32

(* side of a block of pixels of an uploaded image *)
CellPx == 16

(* lit blocks of an uploaded image, at most *)
MaxLit == 1

(* n_planes of the frame handed to render_dmabuf_frame *)
PlaneCounts == {0, 1}

(* output sizes handed to renderer_init: one a multiple of the tile, two   *)
(* with a partial tile at the right or at the bottom                       *)
RenderSizes == {<<64, 32>>, <<48, 32>>, <<32, 48>>}

Cells(w, h) == (0 .. (w - 1) \div CellPx) \X (0 .. (h - 1) \div CellPx)

Images(w, h) == {px \in SUBSET Cells(w, h) : Cardinality(px) <= MaxLit}

(* texture name 0: sampling it gives zero everywhere *)
NoTexture == [target |-> "none", px |-> {}]

(* what one call did: its result, whether the readback buffer was         *)
(* allocated, and the pixels read back                                     *)
RenderEvNone(op) == [op |-> op, ret |-> 0, alloc |-> FALSE, buffer |-> << >>]

(* struct renderer before renderer_init *)
RendererNew ==
    [state |-> "new", width |-> 0, height |-> 0, last_texture |-> NoTexture,
     current_damage |-> {}, ev |-> RenderEvNone("new")]

(* renderer_init: the region starts empty; ok tells whether EGL, the       *)
(* extensions and the shaders came up                                      *)
renderer_init(r, width, height, ok) ==
    IF ~ok THEN [r EXCEPT !.state = "failed", !.ev.ret = -1]
    ELSE [r EXCEPT !.state = "ready", !.width = width, !.height = height,
                   !.current_damage = {}, !.ev.ret = 0]

gl_format_from_wl_shm(format) == 0

(* glBindTexture(target, self->last_texture) on unit 1: a texture of       *)
(* another target is not bound, and the unit samples texture 0             *)
BoundLast(r, target) ==
    IF r.last_texture.target = target THEN r.last_texture.px ELSE {}

(* the damage shader drawn into a viewport of width x height pixels: pixel *)
(* (x, y) is non-zero iff the two textures differ in the part of the image *)
(* drawn into it                                                           *)
DamageShader(r, width, height, new, old) ==
    {t \in (0 .. width - 1) \X (0 .. height - 1) :
        \E c \in Cells(r.width, r.height) :
            /\ c[1] * CellPx * width < (t[1] + 1) * r.width
            /\ (c[1] + 1) * CellPx * width > t[1] * r.width
            /\ c[2] * CellPx * height < (t[2] + 1) * r.height
            /\ (c[2] + 1) * CellPx * height > t[2] * r.height
            /\ (c \in new) # (c \in old)}

(* pixman_region_union_rect over the non-zero pixels of the readback *)
RegionOf(buffer) ==
    {[x |-> t[1] * TilePx, y |-> t[2] * TilePx, width |-> TilePx,
      height |-> TilePx] : t \in buffer}

(* glReadPixels(0, 0, width, height, ...): the pixels of the viewport row  *)
(* by row                                                                  *)
glReadPixels(width, height, drawn) ==
    [i \in 1 .. width * height |->
        IF <<(i - 1) % width, (i - 1) \div width>> \in drawn THEN 1 ELSE 0]

pixman_region_clear(r) == [r EXCEPT !.current_damage = {}]

pixman_region_union_rect(r, x, y, w, h) ==
    [r EXCEPT !.current_damage =
                  @ \cup {[x |-> x, y |-> y, width |-> w, height |-> h]}]

(* for (x ...) loop of render_check_damage; buffer[0] is the first element *)
RECURSIVE DamageLoopX(_, _, _, _, _)
DamageLoopX(r, buffer, width, y, x) ==
    IF x < width
    THEN DamageLoopX(IF buffer[y * width + x + 1] # 0
                     THEN pixman_region_union_rect(r, x * TilePx, y * TilePx,
                                                   TilePx, TilePx)
                     ELSE r,
                     buffer, width, y, x + 1)
    ELSE r

(* for (y ...) loop of render_check_damage *)
RECURSIVE DamageLoopY(_, _, _, _, _)
DamageLoopY(r, buffer, width, height, y) ==
    IF y < height
    THEN DamageLoopY(DamageLoopX(r, buffer, width, y, 0), buffer, width, height,
                     y + 1)
    ELSE r

(* render_check_damage that adds to the region it finds *)
render_check_damage_noclear(r, target, tex, malloc_ok) ==
    LET width == r.width \div TilePx
        height == r.height \div TilePx
        buffer == glReadPixels(width, height,
                      DamageShader(r, width, height, tex.px, BoundLast(r, target)))
    IN IF ~malloc_ok THEN r
       ELSE DamageLoopY([r EXCEPT !.ev.alloc = TRUE, !.ev.buffer = buffer],
                        buffer, width, height, 0)

render_check_damage(r, target, tex, malloc_ok) ==
    LET width == r.width \div TilePx
        height == r.height \div TilePx
        buffer == glReadPixels(width, height,
                      DamageShader(r, width, height, tex.px, BoundLast(r, target)))
    IN IF ~malloc_ok THEN r
       ELSE DamageLoopY(pixman_region_clear(
                            [r EXCEPT !.ev.alloc = TRUE, !.ev.buffer = buffer]),
                        buffer, width, height, 0)

render_dmabuf_frame(r, px, n_planes, image_ok) ==
    LET tex == [target |-> "GL_TEXTURE_EXTERNAL_OES", px |-> px]
    IN IF n_planes = 0 THEN [r EXCEPT !.ev.ret = -1]
       ELSE IF ~image_ok THEN [r EXCEPT !.ev.ret = -1]
       ELSE [r EXCEPT !.last_texture = tex, !.ev.ret = 0]

render_framebuffer(r, px, format, malloc_ok) ==
    LET tex == [target |-> "GL_TEXTURE_2D", px |-> px]
        a == render_check_damage(r, "GL_TEXTURE_2D", tex, malloc_ok)
    IN IF gl_format_from_wl_shm(format) < 0 THEN [r EXCEPT !.ev.ret = -1]
       ELSE [a EXCEPT !.last_texture = tex, !.ev.ret = 0]

RenderInit ==
    /\ rd.state = "new"
    /\ \E size \in RenderSizes, ok \in BOOLEAN :
           rd' = renderer_init([rd EXCEPT !.ev = RenderEvNone("init")],
                               size[1], size[2], ok)
    /\ UNCHANGED <<dm, sm, fdm, kb>>

RenderFramebuffer ==
    /\ rd.state = "ready"
    /\ \E px \in Images(rd.width, rd.height), format \in Formats,
          malloc_ok \in BOOLEAN :
           rd' = render_framebuffer([rd EXCEPT !.ev = RenderEvNone("framebuffer")],
                                    px, format, malloc_ok)
    /\ UNCHANGED <<dm, sm, fdm, kb>>

RenderDmabuf ==
    /\ rd.state = "ready"
    /\ \E px \in Images(rd.width, rd.height), n_planes \in PlaneCounts,
          image_ok \in BOOLEAN :
           rd' = render_dmabuf_frame([rd EXCEPT !.ev = RenderEvNone("dmabuf")],
                                     px, n_planes, image_ok)
    /\ UNCHANGED <<dm, sm, fdm, kb>>

(***************************************************************************)
(* dones is a history variable.  Under SpecCounted it holds the on_done    *)
(* calls since the caller's last accepted start, counted up to 2; under    *)
(* SpecLive the parity of all on_done calls; under SpecStopped whether the *)
(* caller's last call was stop(); the other specifications leave it at 0.  *)
(* A start of the caller is accepted                                       *)
(* when it returns 0; the caller may start again from within on_done, in   *)
(* which case the handler that called on_done ends with the capture        *)
(* started.  Two calls without a start in between are never forgotten.     *)
(***************************************************************************)
CountAfter(m) ==
    IF dones + m.ev.done >= 2 THEN 2
    ELSE IF m.ev.op \in {"start", "start_busy"}
         THEN (IF m.ev.ret = 0 THEN 0 ELSE dones)
    ELSE IF m.ev.done >= 1 /\ m.status = "IN_PROGRESS" /\ m.ev.ret = 0 THEN 0
    ELSE dones + m.ev.done

Init ==
    /\ dm = DmabufInit
    /\ sm = ScreencopyInit
    /\ fdm = FdInit
    /\ kb = InjectorNew
    /\ rd = RendererNew
    /\ dones = 0

NextShm ==
    \/ ShmStart /\ UNCHANGED dones
    \/ ShmStop /\ UNCHANGED dones
    \/ ShmBufferEvent /\ UNCHANGED dones
    \/ ShmReadyEvent /\ UNCHANGED dones
    \/ ShmFailedEvent /\ UNCHANGED dones
    \/ ShmTimerExpiry /\ UNCHANGED dones
    \/ ShmTick /\ UNCHANGED dones

SpecShm == Init /\ [][NextShm]_vars

NextShmAny == NextShm \/ (ShmStartBusy /\ UNCHANGED dones)

SpecShmAny == Init /\ [][NextShmAny]_vars

NextKeyboard ==
    \/ KbInit /\ UNCHANGED dones
    \/ KbFeed /\ UNCHANGED dones

SpecKeyboard == Init /\ [][NextKeyboard]_vars

NextRender ==
    \/ RenderInit /\ UNCHANGED dones
    \/ RenderFramebuffer /\ UNCHANGED dones
    \/ RenderDmabuf /\ UNCHANGED dones

SpecRender == Init /\ [][NextRender]_vars

NextFd ==
    \/ FdBufferInit /\ UNCHANGED dones
    \/ FdScreencopyRenew /\ UNCHANGED dones
    \/ FdKeyboardInit /\ UNCHANGED dones
    \/ FdKeyboardDestroy /\ UNCHANGED dones

SpecFd == Init /\ [][NextFd]_vars

NextDmabuf ==
    \/ DmabufStart /\ UNCHANGED dones
    \/ DmabufStop /\ UNCHANGED dones
    \/ DmabufFrameEvent /\ UNCHANGED dones
    \/ DmabufObjectEvent /\ UNCHANGED dones
    \/ DmabufReadyEvent /\ UNCHANGED dones
    \/ DmabufCancelEvent /\ UNCHANGED dones
    \/ DmabufTimerExpiry /\ UNCHANGED dones
    \/ DmabufTick /\ UNCHANGED dones

SpecDmabuf == Init /\ [][NextDmabuf]_vars

(* A run of the program drives one backend: the other one stays as it was *)
(* constructed.                                                            *)
NextOneBackend ==
    \/ NextDmabuf /\ sm = ScreencopyInit
    \/ NextShm /\ dm = DmabufInit

SpecOneBackend == Init /\ [][NextOneBackend]_vars

(* either backend, one per run, with the on_done calls counted *)
NextCounted ==
    \/ DmabufStart /\ dones' = CountAfter(dm') /\ sm = ScreencopyInit
    \/ DmabufStop /\ dones' = CountAfter(dm') /\ sm = ScreencopyInit
    \/ DmabufFrameEvent /\ dones' = CountAfter(dm') /\ sm = ScreencopyInit
    \/ DmabufObjectEvent /\ dones' = CountAfter(dm') /\ sm = ScreencopyInit
    \/ DmabufReadyEvent /\ dones' = CountAfter(dm') /\ sm = ScreencopyInit
    \/ DmabufCancelEvent /\ dones' = CountAfter(dm') /\ sm = ScreencopyInit
    \/ DmabufTimerExpiry /\ dones' = CountAfter(dm') /\ sm = ScreencopyInit
    \/ DmabufTick /\ dones' = CountAfter(dm') /\ sm = ScreencopyInit
    \/ ShmStart /\ dones' = CountAfter(sm') /\ dm = DmabufInit
    \/ ShmStop /\ dones' = CountAfter(sm') /\ dm = DmabufInit
    \/ ShmBufferEvent /\ dones' = CountAfter(sm') /\ dm = DmabufInit
    \/ ShmReadyEvent /\ dones' = CountAfter(sm') /\ dm = DmabufInit
    \/ ShmFailedEvent /\ dones' = CountAfter(sm') /\ dm = DmabufInit
    \/ ShmTimerExpiry /\ dones' = CountAfter(sm') /\ dm = DmabufInit
    \/ ShmTick /\ dones' = CountAfter(sm') /\ dm = DmabufInit

SpecCounted == Init /\ [][NextCounted]_vars

NextDmabufAny == NextDmabuf \/ (DmabufStartBusy /\ UNCHANGED dones)

(* 0 once the caller has called start(), from inside on_done or not; when *)
(* its last call was stop(): 1 if stop() left no frame object that can    *)
(* still deliver events, 2 if it left one                                 *)
StoppedAfter(m, alive) ==
    IF m.ev.op = "stop" THEN (IF alive THEN 2 ELSE 1)
    ELSE IF m.ev.op \in {"start", "start_busy"} THEN 0
    ELSE IF m.ev.done >= 1 /\ m.status = "IN_PROGRESS" THEN 0
    ELSE dones

DmabufStoppedAfter == StoppedAfter(dm', Outstanding(dm'.frames) # {})

ShmStoppedAfter == StoppedAfter(sm', ShmOutstanding(sm'.frames) # {})

(* either backend, one per run, with the caller's last call remembered *)
NextStopped ==
    \/ DmabufStart /\ dones' = DmabufStoppedAfter /\ sm = ScreencopyInit
    \/ DmabufStop /\ dones' = DmabufStoppedAfter /\ sm = ScreencopyInit
    \/ DmabufFrameEvent /\ dones' = DmabufStoppedAfter /\ sm = ScreencopyInit
    \/ DmabufObjectEvent /\ dones' = DmabufStoppedAfter /\ sm = ScreencopyInit
    \/ DmabufReadyEvent /\ dones' = DmabufStoppedAfter /\ sm = ScreencopyInit
    \/ DmabufCancelEvent /\ dones' = DmabufStoppedAfter /\ sm = ScreencopyInit
    \/ DmabufTimerExpiry /\ dones' = DmabufStoppedAfter /\ sm = ScreencopyInit
    \/ DmabufTick /\ dones' = DmabufStoppedAfter /\ sm = ScreencopyInit
    \/ ShmStart /\ dones' = ShmStoppedAfter /\ dm = DmabufInit
    \/ ShmStop /\ dones' = ShmStoppedAfter /\ dm = DmabufInit
    \/ ShmBufferEvent /\ dones' = ShmStoppedAfter /\ dm = DmabufInit
    \/ ShmReadyEvent /\ dones' = ShmStoppedAfter /\ dm = DmabufInit
    \/ ShmFailedEvent /\ dones' = ShmStoppedAfter /\ dm = DmabufInit
    \/ ShmTimerExpiry /\ dones' = ShmStoppedAfter /\ dm = DmabufInit
    \/ ShmTick /\ dones' = ShmStoppedAfter /\ dm = DmabufInit

SpecStopped == Init /\ [][NextStopped]_vars

(* capture_output returned an object to every request of the step *)
DmabufServed == dm'.ev.reqs >= 1 => dm'.zwlr_frame # 0

ShmServed == sm'.ev.reqs >= 1 => sm'.frame # 0

(* the number of steps that called on_done so far, modulo 2 *)
ParityAfter(m) == (dones + Min(m.ev.done, 1)) % 2

DmabufLive(A) ==
    A /\ DmabufServed /\ dones' = ParityAfter(dm') /\ sm = ScreencopyInit

ShmLive(A) ==
    A /\ ShmServed /\ dones' = ParityAfter(sm') /\ dm = DmabufInit

(* the compositor sends the next event of some outstanding capture *)
DmabufCompositor ==
    \/ DmabufLive(DmabufFrameEvent)
    \/ DmabufLive(DmabufObjectEvent)
    \/ DmabufLive(DmabufReadyEvent)
    \/ DmabufLive(DmabufCancelEvent)

ShmCompositor ==
    \/ ShmLive(ShmBufferEvent)
    \/ ShmLive(ShmReadyEvent)
    \/ ShmLive(ShmFailedEvent)

(* either backend, one per run, with a caller that never stops a capture  *)
(* and a compositor that has an object for every capture_output           *)
NextLive ==
    \/ DmabufLive(DmabufStart)
    \/ DmabufLive(DmabufFrameEvent)
    \/ DmabufLive(DmabufObjectEvent)
    \/ DmabufLive(DmabufReadyEvent)
    \/ DmabufLive(DmabufCancelEvent)
    \/ DmabufLive(DmabufTimerExpiry)
    \/ DmabufLive(DmabufTick)
    \/ ShmLive(ShmStart)
    \/ ShmLive(ShmBufferEvent)
    \/ ShmLive(ShmReadyEvent)
    \/ ShmLive(ShmFailedEvent)
    \/ ShmLive(ShmTimerExpiry)
    \/ ShmLive(ShmTick)

(* The compositor answers, the event loop runs the callback of an expired *)
(* timer, and time advances: the clock stands still only at the instant a *)
(* timer is due, so no run handles events forever without a tick.  The    *)
(* caller is under no obligation to start a capture.                      *)
FairLive ==
    /\ WF_vars(DmabufCompositor)
    /\ WF_vars(DmabufLive(DmabufTimerExpiry))
    /\ SF_vars(DmabufLive(DmabufTick))
    /\ WF_vars(ShmCompositor)
    /\ WF_vars(ShmLive(ShmTimerExpiry))
    /\ SF_vars(ShmLive(ShmTick))

SpecLive == Init /\ [][NextLive]_vars /\ FairLive

SpecDmabufAny == Init /\ [][NextDmabufAny]_vars

(***************************************************************************)
(* Claims                                                                  *)
(***************************************************************************)

(* C1: in every reachable state at most one compositor capture of the      *)
(* backend is outstanding (a frame object that can still deliver events).  *)
C1_AtMostOneOutstanding == Cardinality(Outstanding(dm.frames)) <= 1

(* C2: start() while IN_PROGRESS returns an error, issues no capture_output *)
(* request, arms no timer and changes no backend state.                    *)
C2_StartBusyFailsFast ==
    [][DmabufStartBusy =>
          /\ dm'.ev.ret = -1
          /\ dm'.ev.reqs = 0
          /\ [dm' EXCEPT !.ev = dm.ev] = dm]_vars

(* C3: no handler closes a plane slot that holds no fd delivered for the   *)
(* frame (never assigned, or closed before), and no delivered fd is lost   *)
(* without being closed.                                                   *)
C3_FdsClosedExactlyOnce == ~dm.ev.badClose /\ ~dm.ev.lostFd

(* C4: when stop() returns and when a handler that invoked on_done         *)
(* returns, n_planes is 0 and the backend holds no open dma-buf fd.        *)
C4_NoFdAfterStopOrDone ==
    (dm.ev.op = "stop" \/ dm.ev.done > 0) =>
        dm.n_planes = 0 /\ \A i \in PlaneSlots : dm.plane[i] = 0

(* C5: whenever on_done runs with status DONE the frame has at least one   *)
(* plane, every plane fd is open and all were delivered by one frame       *)
(* object.                                                                 *)
C5_DoneFrameIsWhole ==
    (dm.ev.done > 0 /\ dm.ev.doneStatus = "DONE") => dm.ev.doneWhole

(* C6: cancel maps PERMANENT to FATAL and any other reason to FAILED, the  *)
(* frame object is released and on_done runs once, seeing that status.     *)
C6_CancelStatus ==
    dm.ev.op = "cancel" =>
        /\ dm.ev.done = 1
        /\ dm.ev.doneStatus = (IF dm.ev.reason = "PERMANENT" THEN "FATAL" ELSE "FAILED")
        /\ dm.status = dm.ev.doneStatus
        /\ dm.zwlr_frame = 0

(* C6, the release of the frame object: the object that delivered the      *)
(* cancel event is the one the handler destroys.                           *)
C6_CancelledFrameReleased == dm.ev.op = "cancel" => dm.ev.released

(* C6 as a whole: status mapping, on_done once with that status, and the   *)
(* frame object that was cancelled released.                               *)
C6_CancelContract == C6_CancelStatus /\ C6_CancelledFrameReleased

(* C7 as stated: on ready, less than 1/RATE_LIMIT since the last delivery  *)
(* arms the timer for the remaining time without on_done; otherwise        *)
(* on_done(DONE) runs at once and no timer is armed; two DONE deliveries   *)
(* are at least 1/RATE_LIMIT apart.                                        *)
C7_ReadyRateLimit ==
    /\ dm.ev.due = "early" =>
          dm.ev.done = 0 /\ dm.ev.armed /\ dm.timer = Period - dm.elapsed
    /\ dm.ev.due \in {"exact", "late"} =>
          dm.ev.done = 1 /\ dm.ev.doneStatus = "DONE" /\ ~dm.ev.armed /\ dm.timer = -1
    /\ dm.ev.doneGapOk

(* C7 amended: on ready, at most 1/RATE_LIMIT since the last delivery      *)
(* (the deadline itself included) arms the timer for the remaining time    *)
(* without on_done; more than 1/RATE_LIMIT runs on_done(DONE) at once with *)
(* no timer armed; two DONE deliveries are at least 1/RATE_LIMIT apart.    *)
C7_Amended ==
    /\ dm.ev.due \in {"early", "exact"} =>
          dm.ev.done = 0 /\ dm.ev.armed /\ dm.timer = Period - dm.elapsed
    /\ dm.ev.due = "late" =>
          dm.ev.done = 1 /\ dm.ev.doneStatus = "DONE" /\ ~dm.ev.armed /\ dm.timer = -1
    /\ dm.ev.doneGapOk

(* a ready event exactly at the deadline arms a timer of no duration, and  *)
(* a DONE delivery by the timer follows a previous DONE delivery           *)
C7_Witness ==
    /\ dm.ev.op = "ready"
    /\ dm.ev.due = "exact"
    /\ dm.ev.armed
    /\ dm.timer = 0

(* C8: an accepted start() issues capture_output inside start() with no    *)
(* timer armed when 1/RATE_LIMIT - (t - last_time) - delay <= 0; otherwise *)
(* it arms the timer for that remaining time and the request is issued     *)
(* only by the timer, exactly at last_time + 1/RATE_LIMIT - delay; no      *)
(* request is issued earlier than that instant.                            *)
C8_StartRateLimit ==
    /\ (sm.ev.op = "start" /\ sm.ev.plan = "go") =>
          sm.ev.reqs = 1 /\ ~sm.ev.armed /\ sm.timer = -1
    /\ (sm.ev.op = "start" /\ sm.ev.plan = "wait") =>
          /\ sm.ev.reqs = 0
          /\ sm.ev.armed
          /\ sm.timer = Period - sm.elapsed - sm.delay
    /\ sm.ev.op = "poll" => sm.ev.reqs = 1 /\ sm.ev.slack = 0
    /\ sm.ev.reqs > 0 => sm.ev.slack >= 0
    /\ sm.timer >= 0 => sm.timer = Period - sm.elapsed - sm.delay

(* the timer, armed by a start() with a positive smoothed delay, has fired *)
(* and issued the request                                                  *)
C8_Witness ==
    /\ sm.ev.op = "poll"
    /\ sm.ev.reqs = 1
    /\ sm.delay > 0
    /\ sm.frame # 0

(* C9: when the buffer handler has issued its copy request, the cached     *)
(* buffer is one created for the tuple the buffer event announced.         *)
C9_BufferMatchesAnnounced ==
    (sm.ev.op = "buffer" /\ sm.ev.copies > 0 /\ ~sm.crashed) =>
        sm.buffer = sm.ev.tuple

(* C10: when screencopy_buffer_init and keyboard_init return, the fd they  *)
(* got from shm_alloc_fd has been closed exactly once, on the success path *)
(* and on every failure path.                                              *)
C10_ShmFdClosedOnce ==
    /\ fdm.sc.ev.fd \in {"none", "closed"}
    /\ fdm.kb.ev.fd \in {"none", "closed"}
    /\ (fdm.sc.ev.op = "buffer_init" /\ fdm.sc.ev.made) => fdm.sc.ev.fd = "closed"
    /\ fdm.kb.ev.at \in {"write", "success"} => fdm.kb.ev.fd = "closed"
    /\ fdm.kb.ev.at = "success" <=> fdm.kb.ev.sent = 1

(* buffer creation failed after the fd was allocated, and the keymap write *)
(* failed                                                                  *)
C10_Witness ==
    /\ fdm.sc.ev.op = "buffer_init"
    /\ fdm.sc.ev.ret = -1
    /\ fdm.sc.ev.fd = "closed"
    /\ fdm.kb.ev.at = "write"
    /\ fdm.kb.ev.ret = -1
    /\ fdm.kb.ev.fd = "closed"

(* C11, the delivery of the failure: when screencopy_buffer_init fails in  *)
(* the buffer handler, on_done runs exactly once and sees status FATAL,    *)
(* and unless on_done started a new capture no frame object is left.       *)
C11_FatalDelivered ==
    (sm.ev.op = "buffer" /\ sm.buffer = NoBuffer) =>
        /\ sm.ev.done = 1
        /\ sm.ev.doneStatus = "FATAL"
        /\ sm.ev.reqs = 0 => (sm.frame = 0 /\ ShmOutstanding(sm.frames) = {})

(* C11 as a whole: the failure is delivered as above and the handler       *)
(* issues no copy_with_damage request after it.                            *)
C11_FailureShortCircuits ==
    /\ C11_FatalDelivered
    /\ (sm.ev.op = "buffer" /\ sm.buffer = NoBuffer) =>
           (sm.ev.copies = 0 /\ ~sm.crashed)

(* C12: stop() called while status is IN_PROGRESS (timer pending or        *)
(* waiting for the compositor) leaves status STOPPED, in both backends.    *)
C12_StopSetsStopped ==
    /\ [][(ShmStop /\ sm.status = "IN_PROGRESS") => sm'.status = "STOPPED"]_vars
    /\ [][(DmabufStop /\ dm.status = "IN_PROGRESS") => dm'.status = "STOPPED"]_vars

(* C12 for the DMA-BUF backend alone *)
DmabufStopSetsStopped ==
    [][(DmabufStop /\ dm.status = "IN_PROGRESS") => dm'.status = "STOPPED"]_vars

(* C13, the second stop(): a stop() that directly follows a stop() changes *)
(* nothing in the backend, destroys no frame object and closes no fd.      *)
DmabufStopTwiceSame ==
    [][(DmabufStop /\ dm.ev.op = "stop") =>
          /\ [dm' EXCEPT !.ev = dm.ev] = dm
          /\ ~dm'.ev.badClose]_vars

ShmStopTwiceSame ==
    [][(ShmStop /\ sm.ev.op = "stop") => [sm' EXCEPT !.ev = sm.ev] = sm]_vars

(* C13, the state after stop() in the SHM backend: no timer is pending and *)
(* no frame object of the backend exists.                                  *)
ShmStopLeavesNothing ==
    sm.ev.op = "stop" =>
        sm.timer = -1 /\ sm.frame = 0 /\ ShmOutstanding(sm.frames) = {}

(* C13 as a whole for the DMA-BUF backend: after stop() no timer is        *)
(* pending and no frame object of the backend exists, and a second stop()  *)
(* changes nothing.                                                        *)
C13_StopIdempotent ==
    /\ [](dm.ev.op = "stop" =>
             dm.timer = -1 /\ dm.zwlr_frame = 0 /\ Outstanding(dm.frames) = {})
    /\ DmabufStopTwiceSame

(* C14: whenever on_done runs, status already holds the outcome of the     *)
(* capture (DONE, FAILED or FATAL); in screencopy_ready the timer has been *)
(* stopped, last_time set to the current time and delay set to the         *)
(* smoother's result before on_done runs, which sees status DONE.          *)
C14_StatusFinalAtOnDone ==
    /\ dm.ev.done > 0 => dm.ev.doneStatus \in {"DONE", "FAILED", "FATAL"}
    /\ sm.ev.done > 0 => sm.ev.doneStatus \in {"DONE", "FAILED", "FATAL"}
    /\ dm.ev.op \in {"timer", "cancel"} =>
           (dm.ev.done > 0 => dm.status = dm.ev.doneStatus)
    /\ sm.ev.op = "ready" =>
           /\ sm.ev.done = 1
           /\ sm.ev.doneStatus = "DONE"
           /\ sm.ev.doneTimerOff
           /\ sm.ev.doneFresh
           /\ sm.ev.doneDelay = sm.ev.smoothed

(* a ready event some time after the last delivery, with a new value of    *)
(* the smoothed delay, has run on_done                                     *)
C14_Witness ==
    /\ sm.ev.op = "ready"
    /\ sm.ev.done = 1
    /\ sm.ev.smoothed > 0
    /\ sm.ev.doneDelay = sm.ev.smoothed

(***************************************************************************)
(* Keyboard injector.  Resolve is the entry a symbol stands for: the first *)
(* entry of the table with that symbol, 0 when there is none.              *)
(***************************************************************************)
Resolve(k, symbol) ==
    LET run == {i \in 1 .. Len(k.lookup_table) : k.lookup_table[i].symbol = symbol}
    IN IF run = {} THEN 0 ELSE CHOOSE i \in run : \A j \in run : i <= j

(* the feed call of this step changes nothing: the symbol has no entry, or *)
(* the membership of its code already equals pressed                       *)
FeedIsNoOp ==
    LET r == Resolve(kb, kb'.ev.symbol)
    IN \/ r = 0
       \/ (kb.lookup_table[r].code \in kb.key_state) = kb'.ev.is_pressed

(* C15: a key code is a member of the key-state set if and only if the     *)
(* most recent key event sent to the virtual keyboard for that code was a  *)
(* press; after a feed(s, false) the code of s is not a member.            *)
C15_MembershipIsLastEvent ==
    /\ [](kb.sink = {code - 8 : code \in kb.key_state})
    /\ [][(KbFeed /\ ~kb'.ev.is_pressed /\ Resolve(kb, kb'.ev.symbol) # 0) =>
             kb.lookup_table[Resolve(kb, kb'.ev.symbol)].code \notin kb'.key_state]_vars

(* a release was sent for a key pressed earlier while another key is down  *)
C15_Witness ==
    /\ kb.ev.op = "feed"
    /\ ~kb.ev.is_pressed
    /\ Len(kb.ev.events) = 2
    /\ kb.key_state # {}

(* C16: feed is a complete no-op (no modifiers request, no key request,    *)
(* key-state set unchanged) when the symbol has no entry or when the       *)
(* membership of the resolved code already equals pressed.                 *)
C16_NoOpFeed ==
    [][(KbFeed /\ FeedIsNoOp) =>
          /\ kb'.ev.events = << >>
          /\ kb'.key_state = kb.key_state
          /\ kb'.sink = kb.sink]_vars

(* a second press of a symbol whose key is down sent nothing *)
C16_Witness ==
    /\ kb.ev.op = "feed"
    /\ kb.ev.is_pressed
    /\ kb.ev.events = << >>
    /\ Resolve(kb, kb.ev.symbol) # 0
    /\ kb.lookup_table[Resolve(kb, kb.ev.symbol)].code \in kb.key_state

(* C17: a feed call that is not a no-op sends exactly two requests: first  *)
(* modifiers with depressed = locked = group = 0 and latched = the mask of *)
(* the resolved (code, level), then key with code - 8 and the requested    *)
(* state; the key-state set is updated before either is sent.              *)
C17_ModifiersThenKey ==
    [][(KbFeed /\ ~FeedIsNoOp) =>
          LET e == kb.lookup_table[Resolve(kb, kb'.ev.symbol)]
              after == IF kb'.ev.is_pressed THEN kb.key_state \cup {e.code}
                       ELSE kb.key_state \ {e.code}
              ev1 == kb'.ev.events[1]
              ev2 == kb'.ev.events[2]
          IN /\ Len(kb'.ev.events) = 2
             /\ kb'.key_state = after
             /\ ev1.request = "modifiers"
             /\ ev1.depressed = 0 /\ ev1.locked = 0 /\ ev1.group = 0
             /\ ev1.latched =
                    xkb_keymap_key_get_mods_for_level(kb.keymap, e.code, e.level)
             /\ ev1.key_state = after
             /\ ev2.request = "key"
             /\ ev2.key = e.code - 8
             /\ ev2.pressed = kb'.ev.is_pressed
             /\ ev2.key_state = after]_vars

(* a symbol that needs a modifier was pressed *)
C17_Witness ==
    /\ kb.ev.op = "feed"
    /\ kb.ev.is_pressed
    /\ Len(kb.ev.events) = 2
    /\ kb.ev.events[1].latched # 0

(* symbols asked for: those of every keymap, and one of none *)
FindSymbols == 0 .. BigKeys + 1

(* C18: find(symbol) returns none if and only if no entry has the symbol;  *)
(* otherwise it returns the first entry of the symbol's run, whose level   *)
(* is the minimum among the entries with that symbol and whose (symbol,    *)
(* code, level) is a triple of the keymap.                                 *)
C18_FindFirstOfRun ==
    kb.state = "ready" =>
        LET triples == KeymapTriples(kb.keymap)
            entries == 1 .. Len(kb.lookup_table)
        IN \A symbol \in FindSymbols :
               LET run == {i \in entries : kb.lookup_table[i].symbol = symbol}
               IN \A hit \in bsearch(kb, symbol) :
                      LET found == keyboard_find_symbol(kb, symbol, hit)
                      IN /\ found = 0 <=> run = {}
                         /\ found # 0 =>
                                /\ found \in run
                                /\ \A i \in run :
                                       /\ found <= i
                                       /\ \A j \in found .. i : j \in run
                                       /\ kb.lookup_table[found].level <=
                                              kb.lookup_table[i].level
                                /\ kb.lookup_table[found] \in triples

(* a symbol with entries at two levels was fed and sent its requests *)
C18_Witness ==
    /\ kb.ev.op = "feed"
    /\ Len(kb.ev.events) = 2
    /\ Cardinality({kb.lookup_table[i].level : i \in bsearch(kb, kb.ev.symbol) \ {0}}) = 2

Sorted(t) ==
    \A i, j \in 1 .. Len(t) : i < j => compare_symbols(t[i], t[j]) <= 0

(* C19: after create_lookup_table returned success the table is sorted by  *)
(* (symbol, level) and holds exactly one entry for each (symbol, code,     *)
(* level) triple of the keymap, also when the table had to grow and when   *)
(* a growth allocation failed.                                             *)
C19_TableExact ==
    (kb.state = "ready" /\ kb.ev.op = "init") =>
        /\ Sorted(kb.lookup_table)
        /\ {kb.lookup_table[i] : i \in 1 .. Len(kb.lookup_table)} =
               KeymapTriples(kb.keymap)
        /\ Len(kb.lookup_table) = Cardinality(KeymapTriples(kb.keymap))

(* the table is sorted, holds only triples of the keymap, none twice, and  *)
(* lacks exactly the entries append_entry dropped                          *)
TableExactButDropped ==
    (kb.state = "ready" /\ kb.ev.op = "init") =>
        /\ Sorted(kb.lookup_table)
        /\ {kb.lookup_table[i] : i \in 1 .. Len(kb.lookup_table)} \subseteq
               KeymapTriples(kb.keymap)
        /\ Len(kb.lookup_table) + kb.ev.dropped =
               Cardinality(KeymapTriples(kb.keymap))
        /\ Cardinality({kb.lookup_table[i] : i \in 1 .. Len(kb.lookup_table)}) =
               Len(kb.lookup_table)
        /\ kb.lookup_table_length = Len(kb.lookup_table)

(* the table grew beyond its initial size *)
TableGrew ==
    kb.state = "ready" /\ kb.lookup_table_size > INITIAL_TABLE_SIZE

(***************************************************************************)
(* Renderer                                                                *)
(***************************************************************************)
(* the tiles of the estimator's grid in which two images differ *)
DamageBetween(r, new, old) ==
    RegionOf(DamageShader(r, r.width \div TilePx, r.height \div TilePx, new, old))

SuccessfulUpload == (RenderFramebuffer \/ RenderDmabuf) /\ rd'.ev.ret = 0

(* C20: after a successful upload through render_framebuffer or            *)
(* render_dmabuf_frame the current damage region is the difference between *)
(* that upload's texture and the texture retained before it, whichever     *)
(* path was used and also when the readback buffer was not allocated.      *)
C20_DamageOfLastUpload ==
    [][SuccessfulUpload =>
          rd'.current_damage =
              DamageBetween(rd, rd'.last_texture.px, rd.last_texture.px)]_vars

(* what holds: a render_framebuffer upload whose readback buffer was       *)
(* allocated, following no upload or a render_framebuffer upload           *)
FramebufferDamageFresh ==
    [][(/\ RenderFramebuffer
        /\ rd'.ev.ret = 0
        /\ rd'.ev.alloc
        /\ rd.last_texture.target # "GL_TEXTURE_EXTERNAL_OES") =>
          rd'.current_damage =
              DamageBetween(rd, rd'.last_texture.px, rd.last_texture.px)]_vars

(* the positions of the non-zero pixels of the last readback *)
NonZeroTiles ==
    LET width == rd.width \div 32
        height == rd.height \div 32
    IN {t \in (0 .. width - 1) \X (0 .. height - 1) :
           rd.ev.buffer[t[2] * width + t[1] + 1] # 0}

Ceil(a, b) == (a + b - 1) \div b

(* the pixels of block c of the output lie inside rectangle rect *)
CellInRect(c, rect) ==
    LET x0 == c[1] * CellPx
        y0 == c[2] * CellPx
        x1 == Min((c[1] + 1) * CellPx, rd.width)
        y1 == Min((c[2] + 1) * CellPx, rd.height)
    IN /\ rect.x <= x0 /\ x1 <= rect.x + rect.width
       /\ rect.y <= y0 /\ y1 <= rect.y + rect.height

(* a render_framebuffer upload that compares against the retained texture  *)
ComparedUpload ==
    /\ RenderFramebuffer
    /\ rd'.ev.alloc
    /\ rd.last_texture.target # "GL_TEXTURE_EXTERNAL_OES"

(* C22: for every output size (W, H) the tile grid of the estimator has    *)
(* ceil(W/32) columns and ceil(H/32) rows, every pixel of the output lies  *)
(* in a tile, and a change in the right-most or bottom-most partial tile   *)
(* is reported as damage.                                                  *)
C22_GridCoversOutput ==
    /\ [](rd.ev.alloc =>
            Len(rd.ev.buffer) = Ceil(rd.width, 32) * Ceil(rd.height, 32))
    /\ [][ComparedUpload =>
             \A c \in Cells(rd.width, rd.height) :
                 (c \in rd'.last_texture.px) # (c \in rd.last_texture.px) =>
                     \E rect \in rd'.current_damage : CellInRect(c, rect)]_vars

(* what holds: the grid is exact and every change is covered when both     *)
(* dimensions are multiples of 32                                          *)
GridCoversMultiples ==
    /\ []((rd.ev.alloc /\ rd.width % 32 = 0 /\ rd.height % 32 = 0) =>
            Len(rd.ev.buffer) = Ceil(rd.width, 32) * Ceil(rd.height, 32))
    /\ [][(ComparedUpload /\ rd.width % 32 = 0 /\ rd.height % 32 = 0) =>
             \A c \in Cells(rd.width, rd.height) :
                 (c \in rd'.last_texture.px) # (c \in rd.last_texture.px) =>
                     \E rect \in rd'.current_damage : CellInRect(c, rect)]_vars

(***************************************************************************)
(* on_done calls and starts of the caller                                  *)
(***************************************************************************)
(* C23: for both backends an accepted start of the caller leads to at most *)
(* one on_done call before the caller's next start: on_done is never       *)
(* called a second time without a start of the caller in between.          *)
C23_OneDonePerStart == dones <= 1

(* the SHM backend's side of C23 *)
ShmOneDonePerStart == (dm = DmabufInit /\ sm # ScreencopyInit) => dones <= 1

(* the DMA-BUF backend's side of C23 *)
DmabufOneDonePerStart == (sm = ScreencopyInit /\ dm # DmabufInit) => dones <= 1

(* C24: when capture_output returns no object the backend is not left      *)
(* IN_PROGRESS with nothing outstanding: a start that returns an error     *)
(* leaves the status as it was, and a refused timer-deferred SHM start is  *)
(* reported through on_done or a status other than IN_PROGRESS.            *)
C24_RefusalReported ==
    /\ [][(ShmStart /\ sm'.ev.ret = -1) => sm'.status = sm.status]_vars
    /\ [][(DmabufStart /\ dm'.ev.ret = -1) => dm'.status = dm.status]_vars
    /\ [][(ShmTimerExpiry /\ sm'.ev.ret = -1) =>
             (sm'.ev.done >= 1 \/ sm'.status # "IN_PROGRESS")]_vars
    /\ []((sm.ev.reqs >= 1 /\ sm.ev.ret = -1) =>
             ~(sm.status = "IN_PROGRESS" /\ ShmOutstanding(sm.frames) = {}))
    /\ []((dm.ev.reqs >= 1 /\ dm.ev.ret = -1) =>
             ~(dm.status = "IN_PROGRESS" /\ Outstanding(dm.frames) = {}))

(* the DMA-BUF backend's side of C24 *)
DmabufRefusalReported ==
    /\ [][(DmabufStart /\ dm'.ev.ret = -1) => dm'.status = dm.status]_vars
    /\ []((dm.ev.reqs >= 1 /\ dm.ev.ret = -1) =>
             ~(dm.status = "IN_PROGRESS" /\ Outstanding(dm.frames) = {}))

(* a refused start of the SHM backend leaves it IN_PROGRESS *)
ShmRefusedStartKeepsStatus ==
    [][(ShmStart /\ sm'.ev.ret = -1) => sm'.status = sm.status]_vars

(* a refused deferred start of the SHM backend is reported *)
ShmRefusedPollReported ==
    [][(ShmTimerExpiry /\ sm'.ev.ret = -1) =>
          (sm'.ev.done >= 1 \/ sm'.status # "IN_PROGRESS")]_vars

(* frame_info is what a buffer created with tuple b is announced as *)
InfoOfBuffer(b) ==
    [fourcc_format |-> fourcc_from_wl_shm(b.format), width |-> b.width,
     height |-> b.height, stride |-> b.stride]

DeliveredDone == sm.ev.done >= 1 /\ sm.ev.doneStatus = "DONE"

(* C25: whenever the SHM backend calls on_done with status DONE the mapped *)
(* buffer is large enough for the advertised frame (frame_info.stride *    *)
(* frame_info.height <= bufsize) and frame_info equals the tuple the       *)
(* buffer handed to the compositor was created with.                       *)
C25_DoneBufferFits ==
    DeliveredDone =>
        /\ sm.frame_info.stride * sm.frame_info.height <= sm.bufsize
        /\ sm.buffer # NoBuffer
        /\ sm.frame_info = InfoOfBuffer(sm.buffer)

(* what holds: the buffer is as large as the tuple it was created with,    *)
(* so a frame delivered from a buffer created for its tuple fits           *)
ShmBufsizeOfBuffer ==
    sm.buffer # NoBuffer => sm.bufsize = sm.buffer.stride * sm.buffer.height

(* the symbols fed for the press under which wire code key is down *)
HeldBy(key) == {p[2] : p \in {q \in kb.by : q[1] = key}}

(* the symbol fed in this step resolves to a key that is down for another  *)
(* symbol                                                                  *)
FeedOnKeyOfOther ==
    LET r == Resolve(kb, kb'.ev.symbol)
    IN /\ KbFeed
       /\ r # 0
       /\ HeldBy(kb.lookup_table[r].code - 8) # {}
       /\ kb'.ev.symbol \notin HeldBy(kb.lookup_table[r].code - 8)

(* C26: the pressed state is kept per key code, not per symbol: with the   *)
(* key of s2 down for another symbol s1, feed(s2, true) sends nothing and  *)
(* feed(s2, false) sends the key release of that code and removes it from  *)
(* the key-state set, after which a release feed for that code sends       *)
(* nothing.                                                                *)
C26_StatePerKeyCode ==
    /\ [][(FeedOnKeyOfOther /\ kb'.ev.is_pressed) =>
             /\ kb'.ev.events = << >>
             /\ kb'.key_state = kb.key_state]_vars
    /\ [][(FeedOnKeyOfOther /\ ~kb'.ev.is_pressed) =>
             LET code == kb.lookup_table[Resolve(kb, kb'.ev.symbol)].code
             IN /\ Len(kb'.ev.events) = 2
                /\ kb'.ev.events[2].request = "key"
                /\ kb'.ev.events[2].key = code - 8
                /\ ~kb'.ev.events[2].pressed
                /\ code \notin kb'.key_state
                /\ \A s \in FeedSymbols :
                       (Resolve(kb', s) # 0 /\ kb'.lookup_table[Resolve(kb', s)].code = code) =>
                           keyboard_feed(kb', s, FALSE, Resolve(kb', s)) = kb']_vars

(* the release fed with one symbol let go of a key pressed with another *)
C26_Witness ==
    /\ kb.ev.op = "feed"
    /\ ~kb.ev.is_pressed
    /\ Len(kb.ev.events) = 2
    /\ kb.ev.events[2].held_by # {}
    /\ kb.ev.symbol \notin kb.ev.events[2].held_by

(* a capture is in progress *)
DmabufOwesDone == sm = ScreencopyInit /\ dm.status = "IN_PROGRESS"

ShmOwesDone == dm = DmabufInit /\ sm.status = "IN_PROGRESS"

(* C27: for both backends, with capture_output returning an object, the    *)
(* compositor answering every capture, timers firing, time advancing and   *)
(* no stop(), a capture in progress is followed by a call of on_done: the  *)
(* parity of the on_done calls changes.                                    *)
C27_DoneEventually ==
    /\ ((DmabufOwesDone \/ ShmOwesDone) /\ dones = 0) ~> dones = 1
    /\ ((DmabufOwesDone \/ ShmOwesDone) /\ dones = 1) ~> dones = 0

(* the DMA-BUF backend delivers: its restarts cannot go on forever *)
DmabufDoneEventually ==
    /\ (DmabufOwesDone /\ dones = 0) ~> dones = 1
    /\ (DmabufOwesDone /\ dones = 1) ~> dones = 0

(* the SHM backend delivers for as long as the process runs *)
ShmDoneUnlessCrashed ==
    /\ (ShmOwesDone /\ dones = 0) ~> (dones = 1 \/ sm.crashed)
    /\ (ShmOwesDone /\ dones = 1) ~> (dones = 0 \/ sm.crashed)

(* C28: for both backends, from the return of stop() until the caller's    *)
(* next start() no step calls on_done.                                     *)
C28_NoDoneAfterStop ==
    [][dones >= 1 => (dm'.ev.done = 0 /\ sm'.ev.done = 0)]_vars

(* the SHM backend's side of C28 *)
ShmNoDoneAfterStop ==
    [][(dones >= 1 /\ dm = DmabufInit) => sm'.ev.done = 0]_vars

(* screencopy_stop leaves no frame object behind *)
ShmStopLeavesNoObject == dm = DmabufInit => dones # 2

(* in the DMA-BUF backend on_done is not called after a stop() that left   *)
(* no frame object behind                                                  *)
DmabufNoDoneAfterCleanStop ==
    [][(dones = 1 /\ sm = ScreencopyInit) => dm'.ev.done = 0]_vars

(***************************************************************************)
(* The SHM backend's side of C1 and C2                                     *)
(***************************************************************************)
ShmAtMostOneOutstanding == Cardinality(ShmOutstanding(sm.frames)) <= 1

ShmStartBusyFailsFast ==
    [][ShmStartBusy =>
          /\ sm'.ev.ret = -1
          /\ sm'.ev.reqs = 0
          /\ [sm' EXCEPT !.ev = sm.ev] = sm]_vars

====
